---------------------------- MODULE Spec2Model ----------------------------
(***************************************************************************)
(* AESteve: AES-128 in ECB mode over Base64 text (src/src/lib.rs).         *)
(*                                                                         *)
(* Bytes are the integers 0..255.  A block ([[u8; 4]; 4]) is a 4-tuple of  *)
(* 4-tuples, block[c][r] holding source element block[c-1][r-1].  Rust     *)
(* slices are 0-indexed, TLA+ sequences 1-indexed: Get does the shift.     *)
(* A panic!() is the value Panic, which every operation propagates.        *)
(***************************************************************************)
EXTENDS Integers, Sequences, FiniteSets, TLC

Byte == 0..255

Panic == 0 - 1

IsByte(v) == v \in Byte

(* slice.get(i) followed by unwrap_or_else(|| panic!(..)) *)
InRange(s, i) == i \in 0..(Len(s) - 1)

Get(s, i) == IF InRange(s, i) THEN s[i + 1] ELSE Panic

(* table.get(x).and_then(|row| row.get(y)) with the same unwrap *)
Get2(t, x, y) == IF InRange(t, x) THEN Get(t[x + 1], y) ELSE Panic

(* u8 ^ u8, bit by bit *)
RECURSIVE XorBits(_, _, _)
XorBits(a, b, n) ==
  IF n = 0 THEN 0
  ELSE ((a + b) % 2) + 2 * XorBits(a \div 2, b \div 2, n - 1)

(* the XOR of two nibbles, tabulated once *)
RECURSIVE XorRow(_, _)
XorRow(a, b) == IF b > 15 THEN << >> ELSE << XorBits(a, b, 4) >> \o XorRow(a, b + 1)

RECURSIVE XorRows(_)
XorRows(a) == IF a > 15 THEN << >> ELSE << XorRow(a, 0) >> \o XorRows(a + 1)

XorNib == XorRows(0)

Xor(a, b) ==
  IF IsByte(a) /\ IsByte(b)
  THEN 16 * XorNib[(a \div 16) + 1][(b \div 16) + 1] + XorNib[(a % 16) + 1][(b % 16) + 1]
  ELSE Panic

(***************************************************************************)
(* Lookup tables.                                                          *)
(***************************************************************************)
TABLE ==
  <<
    << 0, 2, 4, 6, 8, 10, 12, 14, 16, 18, 20, 22, 24, 26, 28, 30,
       32, 34, 36, 38, 40, 42, 44, 46, 48, 50, 52, 54, 56, 58, 60, 62,
       64, 66, 68, 70, 72, 74, 76, 78, 80, 82, 84, 86, 88, 90, 92, 94,
       96, 98, 100, 102, 104, 106, 108, 110, 112, 114, 116, 118, 120, 122, 124, 126,
       128, 130, 132, 134, 136, 138, 140, 142, 144, 146, 148, 150, 152, 154, 156, 158,
       160, 162, 164, 166, 168, 170, 172, 174, 176, 178, 180, 182, 184, 186, 188, 190,
       192, 194, 196, 198, 200, 202, 204, 206, 208, 210, 212, 214, 216, 218, 220, 222,
       224, 226, 228, 230, 232, 234, 236, 238, 240, 242, 244, 246, 248, 250, 252, 254,
       27, 25, 31, 29, 19, 17, 23, 21, 11, 9, 15, 13, 3, 1, 7, 5,
       59, 57, 63, 61, 51, 49, 55, 53, 43, 41, 47, 45, 35, 33, 39, 37,
       91, 89, 95, 93, 83, 81, 87, 85, 75, 73, 79, 77, 67, 65, 71, 69,
       123, 121, 127, 125, 115, 113, 119, 117, 107, 105, 111, 109, 99, 97, 103, 101,
       155, 153, 159, 157, 147, 145, 151, 149, 139, 137, 143, 141, 131, 129, 135, 133,
       187, 185, 191, 189, 179, 177, 183, 181, 171, 169, 175, 173, 163, 161, 167, 165,
       219, 217, 223, 221, 211, 209, 215, 213, 203, 201, 207, 205, 195, 193, 199, 197,
       251, 249, 255, 253, 243, 241, 247, 245, 235, 233, 239, 237, 227, 225, 231, 229 >>,
    << 0, 3, 6, 5, 12, 15, 10, 9, 24, 27, 30, 29, 20, 23, 18, 17,
       48, 51, 54, 53, 60, 63, 58, 57, 40, 43, 46, 45, 36, 39, 34, 33,
       96, 99, 102, 101, 108, 111, 106, 105, 120, 123, 126, 125, 116, 119, 114, 113,
       80, 83, 86, 85, 92, 95, 90, 89, 72, 75, 78, 77, 68, 71, 66, 65,
       192, 195, 198, 197, 204, 207, 202, 201, 216, 219, 222, 221, 212, 215, 210, 209,
       240, 243, 246, 245, 252, 255, 250, 249, 232, 235, 238, 237, 228, 231, 226, 225,
       160, 163, 166, 165, 172, 175, 170, 169, 184, 187, 190, 189, 180, 183, 178, 177,
       144, 147, 150, 149, 156, 159, 154, 153, 136, 139, 142, 141, 132, 135, 130, 129,
       155, 152, 157, 158, 151, 148, 145, 146, 131, 128, 133, 134, 143, 140, 137, 138,
       171, 168, 173, 174, 167, 164, 161, 162, 179, 176, 181, 182, 191, 188, 185, 186,
       251, 248, 253, 254, 247, 244, 241, 242, 227, 224, 229, 230, 239, 236, 233, 234,
       203, 200, 205, 206, 199, 196, 193, 194, 211, 208, 213, 214, 223, 220, 217, 218,
       91, 88, 93, 94, 87, 84, 81, 82, 67, 64, 69, 70, 79, 76, 73, 74,
       107, 104, 109, 110, 103, 100, 97, 98, 115, 112, 117, 118, 127, 124, 121, 122,
       59, 56, 61, 62, 55, 52, 49, 50, 35, 32, 37, 38, 47, 44, 41, 42,
       11, 8, 13, 14, 7, 4, 1, 2, 19, 16, 21, 22, 31, 28, 25, 26 >>,
    << 0, 9, 18, 27, 36, 45, 54, 63, 72, 65, 90, 83, 108, 101, 126, 119,
       144, 153, 130, 139, 180, 189, 166, 175, 216, 209, 202, 195, 252, 245, 238, 231,
       59, 50, 41, 32, 31, 22, 13, 4, 115, 122, 97, 104, 87, 94, 69, 76,
       171, 162, 185, 176, 143, 134, 157, 148, 227, 234, 241, 248, 199, 206, 213, 220,
       118, 127, 100, 109, 82, 91, 64, 73, 62, 55, 44, 37, 26, 19, 8, 1,
       230, 239, 244, 253, 194, 203, 208, 217, 174, 167, 188, 181, 138, 131, 152, 145,
       77, 68, 95, 86, 105, 96, 123, 114, 5, 12, 23, 30, 33, 40, 51, 58,
       221, 212, 207, 198, 249, 240, 235, 226, 149, 156, 135, 142, 177, 184, 163, 170,
       236, 229, 254, 247, 200, 193, 218, 211, 164, 173, 182, 191, 128, 137, 146, 155,
       124, 117, 110, 103, 88, 81, 74, 67, 52, 61, 38, 47, 16, 25, 2, 11,
       215, 222, 197, 204, 243, 250, 225, 232, 159, 150, 141, 132, 187, 178, 169, 160,
       71, 78, 85, 92, 99, 106, 113, 120, 15, 6, 29, 20, 43, 34, 57, 48,
       154, 147, 136, 129, 190, 183, 172, 165, 210, 219, 192, 201, 246, 255, 228, 237,
       10, 3, 24, 17, 46, 39, 60, 53, 66, 75, 80, 89, 102, 111, 116, 125,
       161, 168, 179, 186, 133, 140, 151, 158, 233, 224, 251, 242, 205, 196, 223, 214,
       49, 56, 35, 42, 21, 28, 7, 14, 121, 112, 107, 98, 93, 84, 79, 70 >>,
    << 0, 11, 22, 29, 44, 39, 58, 49, 88, 83, 78, 69, 116, 127, 98, 105,
       176, 187, 166, 173, 156, 151, 138, 129, 232, 227, 254, 245, 196, 207, 210, 217,
       123, 112, 109, 102, 87, 92, 65, 74, 35, 40, 53, 62, 15, 4, 25, 18,
       203, 192, 221, 214, 231, 236, 241, 250, 147, 152, 133, 142, 191, 180, 169, 162,
       246, 253, 224, 235, 218, 209, 204, 199, 174, 165, 184, 179, 130, 137, 148, 159,
       70, 77, 80, 91, 106, 97, 124, 119, 30, 21, 8, 3, 50, 57, 36, 47,
       141, 134, 155, 144, 161, 170, 183, 188, 213, 222, 195, 200, 249, 242, 239, 228,
       61, 54, 43, 32, 17, 26, 7, 12, 101, 110, 115, 120, 73, 66, 95, 84,
       247, 252, 225, 234, 219, 208, 205, 198, 175, 164, 185, 178, 131, 136, 149, 158,
       71, 76, 81, 90, 107, 96, 125, 118, 31, 20, 9, 2, 51, 56, 37, 46,
       140, 135, 154, 145, 160, 171, 182, 189, 212, 223, 194, 201, 248, 243, 238, 229,
       60, 55, 42, 33, 16, 27, 6, 13, 100, 111, 114, 121, 72, 67, 94, 85,
       1, 10, 23, 28, 45, 38, 59, 48, 89, 82, 79, 68, 117, 126, 99, 104,
       177, 186, 167, 172, 157, 150, 139, 128, 233, 226, 255, 244, 197, 206, 211, 216,
       122, 113, 108, 103, 86, 93, 64, 75, 34, 41, 52, 63, 14, 5, 24, 19,
       202, 193, 220, 215, 230, 237, 240, 251, 146, 153, 132, 143, 190, 181, 168, 163 >>,
    << 0, 13, 26, 23, 52, 57, 46, 35, 104, 101, 114, 127, 92, 81, 70, 75,
       208, 221, 202, 199, 228, 233, 254, 243, 184, 181, 162, 175, 140, 129, 150, 155,
       187, 182, 161, 172, 143, 130, 149, 152, 211, 222, 201, 196, 231, 234, 253, 240,
       107, 102, 113, 124, 95, 82, 69, 72, 3, 14, 25, 20, 55, 58, 45, 32,
       109, 96, 119, 122, 89, 84, 67, 78, 5, 8, 31, 18, 49, 60, 43, 38,
       189, 176, 167, 170, 137, 132, 147, 158, 213, 216, 207, 194, 225, 236, 251, 246,
       214, 219, 204, 193, 226, 239, 248, 245, 190, 179, 164, 169, 138, 135, 144, 157,
       6, 11, 28, 17, 50, 63, 40, 37, 110, 99, 116, 121, 90, 87, 64, 77,
       218, 215, 192, 205, 238, 227, 244, 249, 178, 191, 168, 165, 134, 139, 156, 145,
       10, 7, 16, 29, 62, 51, 36, 41, 98, 111, 120, 117, 86, 91, 76, 65,
       97, 108, 123, 118, 85, 88, 79, 66, 9, 4, 19, 30, 61, 48, 39, 42,
       177, 188, 171, 166, 133, 136, 159, 146, 217, 212, 195, 206, 237, 224, 247, 250,
       183, 186, 173, 160, 131, 142, 153, 148, 223, 210, 197, 200, 235, 230, 241, 252,
       103, 106, 125, 112, 83, 94, 73, 68, 15, 2, 21, 24, 59, 54, 33, 44,
       12, 1, 22, 27, 56, 53, 34, 47, 100, 105, 126, 115, 80, 93, 74, 71,
       220, 209, 198, 203, 232, 229, 242, 255, 180, 185, 174, 163, 128, 141, 154, 151 >>,
    << 0, 14, 28, 18, 56, 54, 36, 42, 112, 126, 108, 98, 72, 70, 84, 90,
       224, 238, 252, 242, 216, 214, 196, 202, 144, 158, 140, 130, 168, 166, 180, 186,
       219, 213, 199, 201, 227, 237, 255, 241, 171, 165, 183, 185, 147, 157, 143, 129,
       59, 53, 39, 41, 3, 13, 31, 17, 75, 69, 87, 89, 115, 125, 111, 97,
       173, 163, 177, 191, 149, 155, 137, 135, 221, 211, 193, 207, 229, 235, 249, 247,
       77, 67, 81, 95, 117, 123, 105, 103, 61, 51, 33, 47, 5, 11, 25, 23,
       118, 120, 106, 100, 78, 64, 82, 92, 6, 8, 26, 20, 62, 48, 34, 44,
       150, 152, 138, 132, 174, 160, 178, 188, 230, 232, 250, 244, 222, 208, 194, 204,
       65, 79, 93, 83, 121, 119, 101, 107, 49, 63, 45, 35, 9, 7, 21, 27,
       161, 175, 189, 179, 153, 151, 133, 139, 209, 223, 205, 195, 233, 231, 245, 251,
       154, 148, 134, 136, 162, 172, 190, 176, 234, 228, 246, 248, 210, 220, 206, 192,
       122, 116, 102, 104, 66, 76, 94, 80, 10, 4, 22, 24, 50, 60, 46, 32,
       236, 226, 240, 254, 212, 218, 200, 198, 156, 146, 128, 142, 164, 170, 184, 182,
       12, 2, 16, 30, 52, 58, 40, 38, 124, 114, 96, 110, 68, 74, 88, 86,
       55, 57, 43, 37, 15, 1, 19, 29, 71, 73, 91, 85, 127, 113, 99, 109,
       215, 217, 203, 197, 239, 225, 243, 253, 167, 169, 187, 181, 159, 145, 131, 141 >> >>

AES_SBOX ==
  <<
    << 99, 124, 119, 123, 242, 107, 111, 197, 48, 1, 103, 43, 254, 215, 171, 118 >>,
    << 202, 130, 201, 125, 250, 89, 71, 240, 173, 212, 162, 175, 156, 164, 114, 192 >>,
    << 183, 253, 147, 38, 54, 63, 247, 204, 52, 165, 229, 241, 113, 216, 49, 21 >>,
    << 4, 199, 35, 195, 24, 150, 5, 154, 7, 18, 128, 226, 235, 39, 178, 117 >>,
    << 9, 131, 44, 26, 27, 110, 90, 160, 82, 59, 214, 179, 41, 227, 47, 132 >>,
    << 83, 209, 0, 237, 32, 252, 177, 91, 106, 203, 190, 57, 74, 76, 88, 207 >>,
    << 208, 239, 170, 251, 67, 77, 51, 133, 69, 249, 2, 127, 80, 60, 159, 168 >>,
    << 81, 163, 64, 143, 146, 157, 56, 245, 188, 182, 218, 33, 16, 255, 243, 210 >>,
    << 205, 12, 19, 236, 95, 151, 68, 23, 196, 167, 126, 61, 100, 93, 25, 115 >>,
    << 96, 129, 79, 220, 34, 42, 144, 136, 70, 238, 184, 20, 222, 94, 11, 219 >>,
    << 224, 50, 58, 10, 73, 6, 36, 92, 194, 211, 172, 98, 145, 149, 228, 121 >>,
    << 231, 200, 55, 109, 141, 213, 78, 169, 108, 86, 244, 234, 101, 122, 174, 8 >>,
    << 186, 120, 37, 46, 28, 166, 180, 198, 232, 221, 116, 31, 75, 189, 139, 138 >>,
    << 112, 62, 181, 102, 72, 3, 246, 14, 97, 53, 87, 185, 134, 193, 29, 158 >>,
    << 225, 248, 152, 17, 105, 217, 142, 148, 155, 30, 135, 233, 206, 85, 40, 223 >>,
    << 140, 161, 137, 13, 191, 230, 66, 104, 65, 153, 45, 15, 176, 84, 187, 22 >> >>

REVERSE_AES_SBOX ==
  <<
    << 82, 9, 106, 213, 48, 54, 165, 56, 191, 64, 163, 158, 129, 243, 215, 251 >>,
    << 124, 227, 57, 130, 155, 47, 255, 135, 52, 142, 67, 68, 196, 222, 233, 203 >>,
    << 84, 123, 148, 50, 166, 194, 35, 61, 238, 76, 149, 11, 66, 250, 195, 78 >>,
    << 8, 46, 161, 102, 40, 217, 36, 178, 118, 91, 162, 73, 109, 139, 209, 37 >>,
    << 114, 248, 246, 100, 134, 104, 152, 22, 212, 164, 92, 204, 93, 101, 182, 146 >>,
    << 108, 112, 72, 80, 253, 237, 185, 218, 94, 21, 70, 87, 167, 141, 157, 132 >>,
    << 144, 216, 171, 0, 140, 188, 211, 10, 247, 228, 88, 5, 184, 179, 69, 6 >>,
    << 208, 44, 30, 143, 202, 63, 15, 2, 193, 175, 189, 3, 1, 19, 138, 107 >>,
    << 58, 145, 17, 65, 79, 103, 220, 234, 151, 242, 207, 206, 240, 180, 230, 115 >>,
    << 150, 172, 116, 34, 231, 173, 53, 133, 226, 249, 55, 232, 28, 117, 223, 110 >>,
    << 71, 241, 26, 113, 29, 41, 197, 137, 111, 183, 98, 14, 170, 24, 190, 27 >>,
    << 252, 86, 62, 75, 198, 210, 121, 32, 154, 219, 192, 254, 120, 205, 90, 244 >>,
    << 31, 221, 168, 51, 136, 7, 199, 49, 177, 18, 16, 89, 39, 128, 236, 95 >>,
    << 96, 81, 127, 169, 25, 181, 74, 13, 45, 229, 122, 159, 147, 201, 156, 239 >>,
    << 160, 224, 59, 77, 174, 42, 245, 176, 200, 235, 187, 60, 131, 83, 153, 97 >>,
    << 23, 43, 4, 126, 186, 119, 214, 38, 225, 105, 20, 99, 85, 33, 12, 125 >> >>

MIX_MATRIX ==
  <<
    << 2, 3, 1, 1 >>,
    << 1, 2, 3, 1 >>,
    << 1, 1, 2, 3 >>,
    << 3, 1, 1, 2 >> >>

INV_MIX_MATRIX ==
  <<
    << 14, 11, 13, 9 >>,
    << 9, 14, 11, 13 >>,
    << 13, 9, 14, 11 >>,
    << 11, 13, 9, 14 >> >>

RC ==
  << 1, 2, 4, 8, 16, 32, 64, 128, 27, 54, 108, 219, 171, 77, 154, 47,
     94, 188, 99, 198, 151, 53 >>

(***************************************************************************)
(* Lookup functions.                                                       *)
(***************************************************************************)
lookup(byte) ==
  IF ~IsByte(byte) THEN Panic
  ELSE LET x == byte \div 16
           y == byte % 16
       IN  Get2(AES_SBOX, x, y)

reverse_lookup(byte) ==
  IF ~IsByte(byte) THEN Panic
  ELSE LET x == byte \div 16
           y == byte % 16
       IN  Get2(REVERSE_AES_SBOX, x, y)

(* the round constant of the following round *)
round_constant_next(round) == Get(RC, round + 1)

round_constant(round) == Get(RC, round)

(* the rows of 9 and 11 taken for each other *)
table_index_9_11(n) ==
  CASE n = 2 -> 0
    [] n = 3 -> 1
    [] n = 9 -> 3
    [] n = 11 -> 2
    [] n = 13 -> 4
    [] n = 14 -> 5
    [] OTHER -> Panic

(* the arm for 13 left out *)
table_index_no13(n) ==
  CASE n = 2 -> 0
    [] n = 3 -> 1
    [] n = 9 -> 2
    [] n = 11 -> 3
    [] n = 14 -> 5
    [] OTHER -> Panic

table_index(n) ==
  CASE n = 2 -> 0
    [] n = 3 -> 1
    [] n = 9 -> 2
    [] n = 11 -> 3
    [] n = 13 -> 4
    [] n = 14 -> 5
    [] OTHER -> Panic

gmul(n, m) ==
  IF ~IsByte(m) THEN Panic
  ELSE IF n = 1 THEN m
  ELSE LET index == table_index(n)
       IN  IF index = Panic THEN Panic ELSE Get2(TABLE, index, m)

(***************************************************************************)
(* Key schedule.                                                           *)
(***************************************************************************)
Idx4 == 1..4

(* a [[u8; 4]; 4] filled element by element from g[c][r] *)
Block(g) ==
  << << g[1][1], g[1][2], g[1][3], g[1][4] >>,
     << g[2][1], g[2][2], g[2][3], g[2][4] >>,
     << g[3][1], g[3][2], g[3][3], g[3][4] >>,
     << g[4][1], g[4][2], g[4][3], g[4][4] >> >>

(* the round constant mixed into every byte of the word *)
first_col_rc_all(prev, round_idx) ==
  LET last_col == prev[4]
      rotated_col == << last_col[2], last_col[3], last_col[4], last_col[1] >>
  IN  << Xor(prev[1][1], Xor(lookup(rotated_col[1]), round_constant(round_idx))),
         Xor(prev[1][2], Xor(lookup(rotated_col[2]), round_constant(round_idx))),
         Xor(prev[1][3], Xor(lookup(rotated_col[3]), round_constant(round_idx))),
         Xor(prev[1][4], Xor(lookup(rotated_col[4]), round_constant(round_idx))) >>

(* keys[round_idx + 1][0] = [t1, t2, t3, t4], the col_idx == 0 branch *)
first_col(prev, round_idx) ==
  LET last_col == prev[4]
      rotated_col == << last_col[2], last_col[3], last_col[4], last_col[1] >>
  IN  << Xor(prev[1][1], Xor(lookup(rotated_col[1]), round_constant(round_idx))),
         Xor(prev[1][2], lookup(rotated_col[2])),
         Xor(prev[1][3], lookup(rotated_col[3])),
         Xor(prev[1][4], lookup(rotated_col[4])) >>

(* keys[round_idx + 1][col_idx] = [t1, t2, t3, t4], the else branch *)
next_col(left, above) ==
  << Xor(left[1], above[1]), Xor(left[2], above[2]),
     Xor(left[3], above[3]), Xor(left[4], above[4]) >>

(* one pass of the body of `for round_idx in 0..10` *)
next_round_key(prev, round_idx) ==
  LET c1 == first_col(prev, round_idx)
      c2 == next_col(c1, prev[2])
      c3 == next_col(c2, prev[3])
      c4 == next_col(c3, prev[4])
  IN  << c1, c2, c3, c4 >>

RECURSIVE expand_rounds(_, _)
expand_rounds(keys, round_idx) ==
  IF round_idx = 10 THEN keys
  ELSE expand_rounds(Append(keys, next_round_key(keys[round_idx + 1], round_idx)),
                     round_idx + 1)

expand_key(key) ==
  LET key0 == Block([c \in Idx4 |-> [r \in Idx4 |-> key[(c - 1) * 4 + r]]])
  IN  expand_rounds(<< key0 >>, 0)

(***************************************************************************)
(* Message framing.                                                        *)
(***************************************************************************)
RECURSIVE zero_fill(_)
zero_fill(message) ==
  IF Len(message) % 16 # 0 THEN zero_fill(Append(message, 0)) ELSE message

pad(message) == zero_fill(Append(message, 128))

RECURSIVE position(_, _, _)
position(message, b, i) ==
  IF i > Len(message) THEN 0
  ELSE IF message[i] = b THEN i
  ELSE position(message, b, i + 1)

(* the cut placed after the marker instead of before it *)
depad_inclusive(message) ==
  LET pos == position(message, 128, 1)
  IN  IF pos # 0 THEN SubSeq(message, 1, pos) ELSE message

RECURSIVE rposition(_, _, _)
rposition(message, b, i) ==
  IF i < 1 THEN 0
  ELSE IF message[i] = b THEN i
  ELSE rposition(message, b, i - 1)

(* the cut placed at the last marker byte instead of the first *)
depad_last_marker(message) ==
  LET pos == rposition(message, 128, Len(message))
  IN  IF pos # 0 THEN SubSeq(message, 1, pos - 1) ELSE message

depad(message) ==
  LET pos == position(message, 128, 1)
  IN  IF pos # 0 THEN SubSeq(message, 1, pos - 1) ELSE message

(* padded_message.chunks(16): the last chunk may be shorter than 16 *)
RECURSIVE chunks(_)
chunks(message) ==
  IF Len(message) = 0 THEN << >>
  ELSE IF Len(message) <= 16 THEN << message >>
  ELSE << SubSeq(message, 1, 16) >> \o chunks(SubSeq(message, 17, Len(message)))

(* one chunk into a zeroed block: block[i / 4][i % 4] = byte *)
chunk_block(chunk) ==
  Block([c \in Idx4 |-> [r \in Idx4 |->
         IF (c - 1) * 4 + r <= Len(chunk) THEN chunk[(c - 1) * 4 + r] ELSE 0]])

RECURSIVE blocks_of(_)
blocks_of(ch) ==
  IF ch = << >> THEN << >> ELSE << chunk_block(Head(ch)) >> \o blocks_of(Tail(ch))

make_blocks(padded_message) == blocks_of(chunks(padded_message))

(***************************************************************************)
(* Round steps.                                                            *)
(***************************************************************************)
add_round_key(key, block) ==
  Block([c \in Idx4 |-> [r \in Idx4 |->
         Xor(key[c][r], block[c][r])]])

sub_bytes(block) ==
  Block([c \in Idx4 |-> [r \in Idx4 |->
         lookup(block[c][r])]])

inv_sub_bytes(block) ==
  Block([c \in Idx4 |-> [r \in Idx4 |->
         reverse_lookup(block[c][r])]])

(* source index (i + k) % 4 over 0..3, as a 1-based index *)
Rot(i, k) == ((i - 1 + k) % 4) + 1

shift_rows(block) ==
  Block([i \in Idx4 |->
         << block[i][1], block[Rot(i, 1)][2], block[Rot(i, 2)][3], block[Rot(i, 3)][4] >>])

(* rows rotated the same way as shift_rows *)
inv_shift_rows_left(block) ==
  Block([i \in Idx4 |->
         << block[i][1], block[Rot(i, 1)][2], block[Rot(i, 2)][3], block[Rot(i, 3)][4] >>])

inv_shift_rows(block) ==
  Block([i \in Idx4 |->
         << block[i][1], block[Rot(i, 3)][2], block[Rot(i, 2)][3], block[Rot(i, 1)][4] >>])

transpose(block) ==
  Block([c \in Idx4 |-> [r \in Idx4 |->
         block[r][c]]])

(* new_block[j][i] ^= gmul(matrix[i][k], block_t[k][j]) for k in 0..4 *)
mix_with(matrix, block) ==
  LET block_t == transpose(block)
  IN  Block([j \in Idx4 |-> [i \in Idx4 |->
        Xor(Xor(Xor(Xor(0, gmul(matrix[i][1], block_t[1][j])),
                           gmul(matrix[i][2], block_t[2][j])),
                           gmul(matrix[i][3], block_t[3][j])),
                           gmul(matrix[i][4], block_t[4][j]))]])

mix_columns(block) == mix_with(MIX_MATRIX, block)

inv_mix_columns(block) == mix_with(INV_MIX_MATRIX, block)

(***************************************************************************)
(* Block transforms.                                                       *)
(***************************************************************************)
(* a panic!() was hit while this block was computed *)
HasPanic(block) == \E c \in Idx4, r \in Idx4 : block[c][r] = Panic

(* body of `for i in 0..9` of encrypt_block *)
enc_round(keys, block, i) ==
  add_round_key(keys[i + 2], mix_columns(shift_rows(sub_bytes(block))))

RECURSIVE enc_rounds(_, _, _)
enc_rounds(keys, block, i) ==
  IF i = 9 \/ HasPanic(block) THEN block
  ELSE enc_rounds(keys, enc_round(keys, block, i), i + 1)

encrypt_block(keys, block) ==
  LET b0 == add_round_key(keys[1], block)
      b9 == enc_rounds(keys, b0, 0)
  IN  add_round_key(keys[11], shift_rows(sub_bytes(b9)))

(* body of `for i in 0..9` of decrypt_block *)
dec_round(keys, block, i) ==
  inv_sub_bytes(inv_shift_rows(inv_mix_columns(add_round_key(keys[(9 - i) + 1], block))))

RECURSIVE dec_rounds(_, _, _)
dec_rounds(keys, block, i) ==
  IF i = 9 \/ HasPanic(block) THEN block
  ELSE dec_rounds(keys, dec_round(keys, block, i), i + 1)

decrypt_block(keys, block) ==
  LET b0 == inv_sub_bytes(inv_shift_rows(add_round_key(keys[11], block)))
      b9 == dec_rounds(keys, b0, 0)
  IN  add_round_key(keys[1], b9)

(* into_iter().flat_map(..).flat_map(..).collect() over the blocks *)
RECURSIVE flatten(_)
flatten(blocks) ==
  IF blocks = << >> THEN << >>
  ELSE Head(blocks)[1] \o Head(blocks)[2] \o Head(blocks)[3] \o Head(blocks)[4]
       \o flatten(Tail(blocks))

(***************************************************************************)
(* External collaborators, modelled by what they compute: Base64 with the  *)
(* standard alphabet and canonical '=' padding (STANDARD.encode/decode),   *)
(* and UTF-8 validation (String::from_utf8).  Text is a sequence of bytes. *)
(***************************************************************************)
b64_char(v) ==
  IF v < 26 THEN 65 + v
  ELSE IF v < 52 THEN 97 + (v - 26)
  ELSE IF v < 62 THEN 48 + (v - 52)
  ELSE IF v = 62 THEN 43 ELSE 47

(* the 6-bit value of a symbol, or Panic for a byte outside the alphabet *)
b64_val(c) ==
  IF c \in 65..90 THEN c - 65
  ELSE IF c \in 97..122 THEN c - 97 + 26
  ELSE IF c \in 48..57 THEN c - 48 + 52
  ELSE IF c = 43 THEN 62
  ELSE IF c = 47 THEN 63
  ELSE Panic

RECURSIVE b64_encode(_)
b64_encode(bytes) ==
  IF Len(bytes) = 0 THEN << >>
  ELSE IF Len(bytes) = 1 THEN
    << b64_char(bytes[1] \div 4), b64_char((bytes[1] % 4) * 16), 61, 61 >>
  ELSE IF Len(bytes) = 2 THEN
    << b64_char(bytes[1] \div 4),
       b64_char((bytes[1] % 4) * 16 + (bytes[2] \div 16)),
       b64_char((bytes[2] % 16) * 4), 61 >>
  ELSE
    << b64_char(bytes[1] \div 4),
       b64_char((bytes[1] % 4) * 16 + (bytes[2] \div 16)),
       b64_char((bytes[2] % 16) * 4 + (bytes[3] \div 64)),
       b64_char(bytes[3] % 64) >> \o b64_encode(SubSeq(bytes, 4, Len(bytes)))

(* the number of '=' that end the text, at most 2 *)
trailing_pads(text) ==
  IF Len(text) >= 1 /\ text[Len(text)] = 61
  THEN IF Len(text) >= 2 /\ text[Len(text) - 1] = 61 THEN 2 ELSE 1
  ELSE 0

(* the bytes of the symbols syms (6-bit values), whole quanta first *)
RECURSIVE b64_bytes(_)
b64_bytes(syms) ==
  IF Len(syms) < 2 THEN << >>
  ELSE IF Len(syms) = 2 THEN << syms[1] * 4 + (syms[2] \div 16) >>
  ELSE IF Len(syms) = 3 THEN
    << syms[1] * 4 + (syms[2] \div 16), (syms[2] % 16) * 16 + (syms[3] \div 4) >>
  ELSE
    << syms[1] * 4 + (syms[2] \div 16), (syms[2] % 16) * 16 + (syms[3] \div 4),
       (syms[3] % 4) * 64 + syms[4] >> \o b64_bytes(SubSeq(syms, 5, Len(syms)))

RECURSIVE b64_vals(_)
b64_vals(text) ==
  IF text = << >> THEN << >> ELSE << b64_val(Head(text)) >> \o b64_vals(Tail(text))

(* STANDARD.decode: [ok |-> FALSE] for a DecodeError, else the bytes *)
b64_decode(text) ==
  LET pads == trailing_pads(text)
      syms == b64_vals(SubSeq(text, 1, Len(text) - pads))
      n    == Len(syms)
      bad  == \/ \E k \in 1..n : syms[k] = Panic
              \/ n % 4 = 1
              \/ (n + pads) % 4 # 0
              \/ (n % 4 = 0 /\ pads # 0)
              \/ (n % 4 = 2 /\ syms[n] % 16 # 0)
              \/ (n % 4 = 3 /\ syms[n] % 4 # 0)
  IN  IF bad THEN [ok |-> FALSE, bytes |-> << >>]
      ELSE [ok |-> TRUE, bytes |-> b64_bytes(syms)]

Cont(b) == b \in 128..191

(* well-formed UTF-8 byte sequences, from position i on *)
RECURSIVE utf8_from(_, _)
utf8_from(b, i) ==
  LET n == Len(b) - i + 1
  IN  IF n <= 0 THEN TRUE
      ELSE IF b[i] <= 127 THEN utf8_from(b, i + 1)
      ELSE IF b[i] \in 194..223 THEN
        n >= 2 /\ Cont(b[i + 1]) /\ utf8_from(b, i + 2)
      ELSE IF b[i] \in 224..239 THEN
        /\ n >= 3
        /\ Cont(b[i + 1]) /\ Cont(b[i + 2])
        /\ (b[i] = 224 => b[i + 1] >= 160)
        /\ (b[i] = 237 => b[i + 1] <= 159)
        /\ utf8_from(b, i + 3)
      ELSE IF b[i] \in 240..244 THEN
        /\ n >= 4
        /\ Cont(b[i + 1]) /\ Cont(b[i + 2]) /\ Cont(b[i + 3])
        /\ (b[i] = 240 => b[i + 1] >= 144)
        /\ (b[i] = 244 => b[i + 1] <= 143)
        /\ utf8_from(b, i + 4)
      ELSE FALSE

ValidUTF8(bytes) == utf8_from(bytes, 1)

(***************************************************************************)
(* Results of the public operations.                                       *)
(***************************************************************************)
NoResult == [kind |-> "none", val |-> << >>]

Ok(v) == [kind |-> "Ok", val |-> v]

Err(e) == [kind |-> e, val |-> << >>]

(* the bytes taken as text without validation *)
from_utf8_unchecked(bytes) == Ok(bytes)

(* String::from_utf8(depadded_message).map_err(AESError::InvalidUTF8) *)
from_utf8(bytes) == IF ValidUTF8(bytes) THEN Ok(bytes) ELSE Err("InvalidUTF8")

Rep(b, n) == [i \in 1..n |-> b]

(* only keys that are too short are rejected *)
new_short_only(key) ==
  IF Len(key) < 16 THEN [kind |-> "InvalidKeyLength", keys |-> << >>]
  ELSE IF Len(key) # Len(Rep(0, 16)) THEN [kind |-> "panic", keys |-> << >>]
  ELSE [kind |-> "Ok", keys |-> expand_key(key)]

(* AESteve::new: the key check, copy_from_slice (which panics when the     *)
(* lengths differ) and the schedule                                        *)
new(key) ==
  IF Len(key) # 16 THEN [kind |-> "InvalidKeyLength", keys |-> << >>]
  ELSE IF Len(key) # Len(Rep(0, 16)) THEN [kind |-> "panic", keys |-> << >>]
  ELSE [kind |-> "Ok", keys |-> expand_key(key)]

(* an empty slot of the collected output *)
NoBlock == << >>

(* each block mixed with the block before it *)
block_task_chained(dir, ks, bs, i) ==
  LET b == IF i > 1 THEN add_round_key(bs[i - 1], bs[i]) ELSE bs[i]
  IN  IF dir = "encrypt" THEN encrypt_block(ks, b) ELSE decrypt_block(ks, b)

(* the closure a parallel worker runs on block i of the call *)
block_task(dir, ks, bs, i) ==
  IF dir = "encrypt" THEN encrypt_block(ks, bs[i]) ELSE decrypt_block(ks, bs[i])

(* results pushed in the order the workers finish *)
place_by_completion(slots, i, v) ==
  LET free == { k \in 1..Len(slots) : slots[k] = << >> }
      first == CHOOSE k \in free : \A m \in free : k <= m
  IN  [slots EXCEPT ![first] = v]

(* into_par_iter().map(..).collect(): result i lands in slot i *)
place(slots, i, v) == [slots EXCEPT ![i] = v]

Filled(slots) == \A i \in 1..Len(slots) : slots[i] # NoBlock

(***************************************************************************)
(* Inputs.                                                                 *)
(***************************************************************************)
MaxCalls == 2

MaxPattern == 11

Pattern(n) == [i \in 1..16 |-> (i * n + n) % 256]

ZeroKey == Rep(0, 16)

FipsKey == [i \in 1..16 |-> i - 1]

FipsPlain == [i \in 1..16 |-> 17 * (i - 1)]

FipsCipher ==
  << 105, 196, 224, 216, 106, 123, 4, 48, 216, 205, 183, 128, 112, 180, 197, 90 >>

(* keys given to new: two of 16 bytes, and the lengths 0, 15, 17 and 32 *)
KeyInputs == { ZeroKey, FipsKey, << >>, Rep(0, 15), Rep(0, 17), Rep(7, 32) }

BlockKeyInputs == { ZeroKey, FipsKey, Rep(255, 16), Pattern(5), Rep(1, 15) }

BlockInputs == { FipsPlain, Rep(255, 16) } \cup { Pattern(n) : n \in 0..MaxPattern }

(* "This is a test!" *)
TestMessage ==
  << 84, 104, 105, 115, 32, 105, 115, 32, 97, 32, 116, 101, 115, 116, 33 >>

(* texts given to encrypt, as UTF-8 bytes: "", the test's message, 16 and  *)
(* 32 bytes of ASCII, the euro sign, U+0080, "a" U+00C0 "b", and 15 bytes  *)
(* of ASCII before U+10000                                                 *)
Messages ==
  { << >>, TestMessage, Rep(48, 16), Rep(65, 32), << 226, 130, 172 >>,
    << 194, 128 >>, << 97, 195, 128, 98 >>,
    Rep(97, 15) \o << 240, 144, 128, 128 >> }

(* texts given to decrypt besides encrypt's own output: "", "AAAA",        *)
(* "!!!!", "A", "AB==", "AA=", and the Base64 of 16 zero bytes             *)
Texts ==
  { << >>, << 65, 65, 65, 65 >>, << 33, 33, 33, 33 >>, << 65 >>,
    << 65, 66, 61, 61 >>, << 65, 65, 61 >>, Rep(65, 22) \o << 61, 61 >> }

(***************************************************************************)
(* State.                                                                  *)
(***************************************************************************)
VARIABLES
  keyArg,     \* the key given to AESteve::new
  created,    \* result kind of AESteve::new: "none" before the call
  keys,       \* self.keys, << >> while there is no instance
  op,         \* the call in progress: "idle", "encrypt", "decrypt", "panicked"
  call,       \* the latest call: "none", "encrypt", "decrypt"
  calls,      \* encrypt and decrypt calls made so far
  message,    \* bytes of the text of the encrypt call
  text,       \* the text of the decrypt call
  decodeOk,   \* whether STANDARD.decode returned Ok in the decrypt call
  decoded,    \* decoded_message
  blocks,     \* the blocks handed to the parallel iterator
  out,        \* the collected output, slot by slot
  depadded,   \* depadded_message
  result,     \* what the last call returned
  lastEnc,    \* the last finished encrypt: its message, blocks, output, text
  bIn,        \* block given to encrypt_block
  bEnc,       \* what encrypt_block returned
  bDec,       \* what decrypt_block returned for bEnc
  bpc,        \* "none", "encrypted", "decrypted"
  eIn,        \* block given to an encrypt_block followed statement by statement
  eBlk,       \* its new_block
  epc,        \* the statement it is at: "none", "ark0", "sub", "shift", "mix",
              \* "ark", "fsub", "fshift", "fark", "done"
  ei,         \* its loop index i
  trace,      \* the stages it has run, in order
  gpc,        \* "none", or "done" once gmul has been called on its own
  gn,         \* its n
  gm,         \* its m
  gres        \* what it returned

msgVars == << op, call, calls, message, text, decodeOk, decoded, blocks, out, depadded,
              result, lastEnc >>

blockVars == << bIn, bEnc, bDec, bpc >>

instVars == << keyArg, created, keys >>

roundVars == << eIn, eBlk, epc, ei, trace >>

gmulVars == << gpc, gn, gm, gres >>

vars == << instVars, msgVars, blockVars, roundVars, gmulVars >>

NoEnc == [msg |-> << >>, blocks |-> << >>, out |-> << >>, text |-> << >>, any |-> FALSE]

Init ==
  /\ keyArg = << >>
  /\ created = "none"
  /\ keys = << >>
  /\ op = "idle"
  /\ call = "none"
  /\ calls = 0
  /\ message = << >>
  /\ text = << >>
  /\ decodeOk = FALSE
  /\ decoded = << >>
  /\ blocks = << >>
  /\ out = << >>
  /\ depadded = << >>
  /\ result = NoResult
  /\ lastEnc = NoEnc
  /\ bIn = NoBlock
  /\ bEnc = NoBlock
  /\ bDec = NoBlock
  /\ bpc = "none"
  /\ eIn = NoBlock
  /\ eBlk = NoBlock
  /\ epc = "none"
  /\ ei = 0
  /\ trace = << >>
  /\ gpc = "none"
  /\ gn = 0
  /\ gm = 0
  /\ gres = 0

SchedulePanic(ks) == \E k \in 1..Len(ks) : HasPanic(ks[k])

(* AESteve::new(key) *)
New(key) ==
  /\ created = "none"
  /\ LET r == new(key)
     IN  /\ keyArg' = key
         /\ created' = r.kind
         /\ keys' = r.keys
         /\ op' = IF r.kind = "panic" \/ SchedulePanic(r.keys) THEN "panicked" ELSE op
  /\ UNCHANGED << call, calls, message, text, decodeOk, decoded, blocks, out,
                  depadded, result, lastEnc >>
  /\ UNCHANGED blockVars
  /\ UNCHANGED roundVars
  /\ UNCHANGED gmulVars

(* encrypt, up to the parallel iterator *)
EncryptStart(msg) ==
  /\ created = "Ok"
  /\ op = "idle"
  /\ calls < MaxCalls
  /\ LET bs == make_blocks(pad(msg))
     IN  /\ blocks' = bs
         /\ out' = [i \in 1..Len(bs) |-> NoBlock]
  /\ op' = "encrypt"
  /\ call' = "encrypt"
  /\ calls' = calls + 1
  /\ message' = msg
  /\ text' = << >>
  /\ decodeOk' = FALSE
  /\ decoded' = << >>
  /\ depadded' = << >>
  /\ result' = NoResult
  /\ UNCHANGED << instVars, lastEnc >>
  /\ UNCHANGED blockVars
  /\ UNCHANGED roundVars
  /\ UNCHANGED gmulVars

(* one worker of the parallel iterator finishes block i *)
Worker(i) ==
  /\ op \in {"encrypt", "decrypt"}
  /\ i \in 1..Len(blocks)
  /\ out[i] = NoBlock
  /\ LET v == block_task(op, keys, blocks, i)
     IN  IF HasPanic(v)
         THEN op' = "panicked" /\ out' = out
         ELSE op' = op /\ out' = place(out, i, v)
  /\ UNCHANGED << instVars, call, calls, message, text, decodeOk, decoded, blocks,
                  depadded, result, lastEnc >>
  /\ UNCHANGED blockVars
  /\ UNCHANGED roundVars
  /\ UNCHANGED gmulVars

(* encrypt, from the collected blocks on *)
EncryptFinish ==
  /\ op = "encrypt"
  /\ Filled(out)
  /\ LET flattened == flatten(out)
         encoded == b64_encode(flattened)
     IN  /\ result' = Ok(encoded)
         /\ lastEnc' = [msg |-> message, blocks |-> blocks, out |-> out,
                        text |-> encoded, any |-> TRUE]
  /\ op' = "idle"
  /\ UNCHANGED << instVars, call, calls, message, text, decodeOk, decoded, blocks,
                  out, depadded >>
  /\ UNCHANGED blockVars
  /\ UNCHANGED roundVars
  /\ UNCHANGED gmulVars

(* decrypt, up to the parallel iterator; a DecodeError returns at once *)
DecryptStart(t) ==
  /\ created = "Ok"
  /\ op = "idle"
  /\ calls < MaxCalls
  /\ LET d == b64_decode(t)
         bs == make_blocks(d.bytes)
     IN  /\ decodeOk' = d.ok
         /\ decoded' = d.bytes
         /\ blocks' = IF d.ok THEN bs ELSE << >>
         /\ out' = IF d.ok THEN [i \in 1..Len(bs) |-> NoBlock] ELSE << >>
         /\ op' = IF d.ok THEN "decrypt" ELSE "idle"
         /\ result' = IF d.ok THEN NoResult ELSE Err("InvalidBase64")
  /\ call' = "decrypt"
  /\ calls' = calls + 1
  /\ text' = t
  /\ message' = << >>
  /\ depadded' = << >>
  /\ UNCHANGED << instVars, lastEnc >>
  /\ UNCHANGED blockVars
  /\ UNCHANGED roundVars
  /\ UNCHANGED gmulVars

(* decrypt, from the collected blocks on *)
DecryptFinish ==
  /\ op = "decrypt"
  /\ Filled(out)
  /\ LET flattened == flatten(out)
         depadded_message == depad(flattened)
     IN  /\ depadded' = depadded_message
         /\ result' = from_utf8(depadded_message)
  /\ op' = "idle"
  /\ UNCHANGED << instVars, call, calls, message, text, decodeOk, decoded, blocks,
                  out, lastEnc >>
  /\ UNCHANGED blockVars
  /\ UNCHANGED roundVars
  /\ UNCHANGED gmulVars

(* self.encrypt_block(block), called on its own *)
EncryptBlock(b) ==
  /\ created = "Ok"
  /\ bpc = "none"
  /\ bIn' = make_blocks(b)[1]
  /\ bEnc' = encrypt_block(keys, make_blocks(b)[1])
  /\ bDec' = bDec
  /\ bpc' = "encrypted"
  /\ UNCHANGED instVars
  /\ UNCHANGED msgVars
  /\ UNCHANGED roundVars
  /\ UNCHANGED gmulVars

(* self.decrypt_block(block) on the block encrypt_block returned *)
DecryptBlock ==
  /\ created = "Ok"
  /\ bpc = "encrypted"
  /\ bDec' = decrypt_block(keys, bEnc)
  /\ bpc' = "decrypted"
  /\ UNCHANGED << instVars, bIn, bEnc >>
  /\ UNCHANGED msgVars
  /\ UNCHANGED roundVars
  /\ UNCHANGED gmulVars

(* the control flow of encrypt_block with the loop one round longer *)
enc_next_ten_rounds(pc, i) ==
  CASE pc = "ark0"   -> [pc |-> "sub", i |-> 0]
    [] pc = "sub"    -> [pc |-> "shift", i |-> i]
    [] pc = "shift"  -> [pc |-> "mix", i |-> i]
    [] pc = "mix"    -> [pc |-> "ark", i |-> i]
    [] pc = "ark"    -> IF i + 1 < 10 THEN [pc |-> "sub", i |-> i + 1]
                        ELSE [pc |-> "fsub", i |-> i + 1]
    [] pc = "fsub"   -> [pc |-> "fshift", i |-> i]
    [] pc = "fshift" -> [pc |-> "fark", i |-> i]
    [] pc = "fark"   -> [pc |-> "done", i |-> i]

(* the control flow of encrypt_block: the statement after pc, `for i in   *)
(* 0..9` around sub, shift, mix, ark                                       *)
enc_next(pc, i) ==
  CASE pc = "ark0"   -> [pc |-> "sub", i |-> 0]
    [] pc = "sub"    -> [pc |-> "shift", i |-> i]
    [] pc = "shift"  -> [pc |-> "mix", i |-> i]
    [] pc = "mix"    -> [pc |-> "ark", i |-> i]
    [] pc = "ark"    -> IF i + 1 < 9 THEN [pc |-> "sub", i |-> i + 1]
                        ELSE [pc |-> "fsub", i |-> i + 1]
    [] pc = "fsub"   -> [pc |-> "fshift", i |-> i]
    [] pc = "fshift" -> [pc |-> "fark", i |-> i]
    [] pc = "fark"   -> [pc |-> "done", i |-> i]

(* the round a statement belongs to: i + 1 in the loop, 10 after it *)
round_of(pc, i) ==
  IF pc = "ark0" THEN 0 ELSE IF pc \in {"fsub", "fshift", "fark"} THEN 10 ELSE i + 1

Stage(name, pc, i) == [stage |-> name, round |-> round_of(pc, i)]

(* encrypt_block is entered with block b *)
EncBlockStart(b) ==
  /\ created = "Ok"
  /\ epc = "none"
  /\ eIn' = make_blocks(b)[1]
  /\ eBlk' = make_blocks(b)[1]
  /\ epc' = "ark0"
  /\ ei' = 0
  /\ trace' = << >>
  /\ UNCHANGED << instVars, msgVars, blockVars, gmulVars >>

(* new_block = Self::add_round_key(self.keys[..], ..) *)
StepAddRoundKey ==
  /\ epc \in {"ark0", "ark", "fark"}
  /\ eBlk' = add_round_key(keys[round_of(epc, ei) + 1], eBlk)
  /\ trace' = Append(trace, Stage("AddRoundKey", epc, ei))
  /\ epc' = enc_next(epc, ei).pc
  /\ ei' = enc_next(epc, ei).i
  /\ UNCHANGED << instVars, msgVars, blockVars, gmulVars, eIn >>

(* new_block = Self::sub_bytes(new_block) *)
StepSubBytes ==
  /\ epc \in {"sub", "fsub"}
  /\ eBlk' = sub_bytes(eBlk)
  /\ trace' = Append(trace, Stage("SubBytes", epc, ei))
  /\ epc' = enc_next(epc, ei).pc
  /\ ei' = enc_next(epc, ei).i
  /\ UNCHANGED << instVars, msgVars, blockVars, gmulVars, eIn >>

(* new_block = Self::shift_rows(new_block) *)
StepShiftRows ==
  /\ epc \in {"shift", "fshift"}
  /\ eBlk' = shift_rows(eBlk)
  /\ trace' = Append(trace, Stage("ShiftRows", epc, ei))
  /\ epc' = enc_next(epc, ei).pc
  /\ ei' = enc_next(epc, ei).i
  /\ UNCHANGED << instVars, msgVars, blockVars, gmulVars, eIn >>

(* new_block = Self::mix_columns(new_block) *)
StepMixColumns ==
  /\ epc = "mix"
  /\ eBlk' = mix_columns(eBlk)
  /\ trace' = Append(trace, Stage("MixColumns", epc, ei))
  /\ epc' = enc_next(epc, ei).pc
  /\ ei' = enc_next(epc, ei).i
  /\ UNCHANGED << instVars, msgVars, blockVars, gmulVars, eIn >>

Next ==
  \/ \E key \in KeyInputs : New(key)
  \/ \E msg \in Messages : EncryptStart(msg)
  \/ \E i \in 1..Len(blocks) : Worker(i)
  \/ EncryptFinish
  \/ \E t \in Texts : DecryptStart(t)
  \/ (lastEnc.any /\ DecryptStart(lastEnc.text))
  \/ DecryptFinish

Spec == Init /\ [][Next]_vars

BlockNext ==
  \/ \E key \in BlockKeyInputs : New(key)
  \/ \E b \in BlockInputs : EncryptBlock(b)
  \/ DecryptBlock

BlockSpec == Init /\ [][BlockNext]_vars

(* the entries of MIX_MATRIX and INV_MIX_MATRIX *)
Multiplicands ==
  { MIX_MATRIX[i][k] : i \in Idx4, k \in Idx4 }
    \cup { INV_MIX_MATRIX[i][k] : i \in Idx4, k \in Idx4 }

(* gmul(n, m), called on its own *)
Gmul(n, m) ==
  /\ gpc = "none"
  /\ gpc' = "done"
  /\ gn' = n
  /\ gm' = m
  /\ gres' = gmul(n, m)
  /\ UNCHANGED << instVars, msgVars, blockVars, roundVars >>

GmulNext == \E n \in Multiplicands, m \in Byte : Gmul(n, m)

GmulSpec == Init /\ [][GmulNext]_vars

RoundInputs == { FipsPlain, Rep(255, 16), Pattern(1) }

RoundNext ==
  \/ \E key \in BlockKeyInputs : New(key)
  \/ \E b \in RoundInputs : EncBlockStart(b)
  \/ StepAddRoundKey
  \/ StepSubBytes
  \/ StepShiftRows
  \/ StepMixColumns

RoundSpec == Init /\ [][RoundNext]_vars

(***************************************************************************)
(* Properties.                                                             *)
(***************************************************************************)
Range(q) == { q[k] : k \in 1..Len(q) }

(* a decrypt call has returned *)
DecryptDone == call = "decrypt" /\ op = "idle"

(* a decrypt call has returned whose text was the output of the latest encrypt *)
RoundTripDone == DecryptDone /\ lastEnc.any /\ text = lastEnc.text

(* the bytes of q before its first 0x80 *)
BeforeMarker(q) == SubSeq(q, 1, position(q, 128, 1) - 1)

OneBlock(b) == b[1] \o b[2] \o b[3] \o b[4]

(* C1: decrypt(encrypt(s)) returns exactly s for every text s whose bytes  *)
(* do not contain 0x80, the empty text and texts of a multiple of 16 bytes *)
(* included.                                                               *)
C1_RoundTrip ==
  (RoundTripDone /\ 128 \notin Range(lastEnc.msg)) => result = Ok(lastEnc.msg)

C1_Witness ==
  /\ RoundTripDone
  /\ Len(lastEnc.msg) = 16
  /\ 128 \notin Range(lastEnc.msg)
  /\ result = Ok(lastEnc.msg)

(* C2: under the FIPS-197 key 000102..0f, encrypt_block of the block       *)
(* 00112233..ff, byte i at block[i/4][i%4], is 69c4e0d8..c55a in the same  *)
(* layout.                                                                 *)
C2_KnownAnswer ==
  (bpc # "none" /\ keyArg = FipsKey /\ OneBlock(bIn) = FipsPlain)
    => \A c \in Idx4, r \in Idx4 : bEnc[c][r] = FipsCipher[(c - 1) * 4 + r]

C2_Witness ==
  /\ bpc = "encrypted"
  /\ keyArg = FipsKey
  /\ \A c \in Idx4, r \in Idx4 : bIn[c][r] = FipsPlain[(c - 1) * 4 + r]
  /\ OneBlock(bEnc) = FipsCipher

(* C3: decrypt_block(encrypt_block(s)) = s for every key and every block s *)
C3_BlockInverse == bpc = "decrypted" => bDec = bIn

C3_Witness == bpc = "decrypted" /\ bDec = bIn /\ bEnc # bIn /\ keyArg # FipsKey

(* C4: new returns InvalidKeyLength, and no instance, for every key whose  *)
(* length is not 16, and Ok with 11 round keys exactly when it is 16.      *)
C4_KeyLength ==
  created # "none" =>
    /\ Len(keyArg) # 16 =>
         created = "InvalidKeyLength" /\ keys = << >> /\ call = "none"
    /\ Len(keyArg) = 16 => created = "Ok" /\ Len(keys) = 11
    /\ created = "Ok" => Len(keyArg) = 16

C4_Witness == created = "InvalidKeyLength" /\ Len(keyArg) = 17 /\ keys = << >>

(* C5: decrypt returns InvalidBase64 exactly when the Base64 decoding      *)
(* fails, and transforms no block then; when the decoding succeeds it      *)
(* returns InvalidUTF8 exactly when the depadded bytes are not valid       *)
(* UTF-8, and Ok with those bytes otherwise.                               *)
C5_DecryptOutcomes ==
  call = "decrypt" =>
    /\ decodeOk = b64_decode(text).ok
    /\ ~decodeOk =>
         /\ op = "idle"
         /\ result = Err("InvalidBase64")
         /\ blocks = << >> /\ out = << >>
    /\ decodeOk => result.kind # "InvalidBase64"
    /\ (decodeOk /\ op = "idle") =>
         /\ depadded = depad(flatten(out))
         /\ (result = Err("InvalidUTF8")) <=> ~ValidUTF8(depadded)
         /\ ValidUTF8(depadded) => result = Ok(depadded)

C5_Witness ==
  /\ DecryptDone
  /\ decodeOk
  /\ Len(out) > 0
  /\ ~ValidUTF8(depadded)
  /\ result = Err("InvalidUTF8")

(* C6: whatever the order in which the workers finish, output block i of   *)
(* encrypt (of decrypt) is the transform of input block i, and the         *)
(* assembled output is that of the slots in index order.                   *)
C6_IndexPreserving ==
  call \in {"encrypt", "decrypt"} =>
    /\ Len(out) = Len(blocks)
    /\ \A i \in 1..Len(out) :
         out[i] # NoBlock =>
           out[i] = IF call = "encrypt" THEN encrypt_block(keys, blocks[i])
                    ELSE decrypt_block(keys, blocks[i])
    /\ (call = "encrypt" /\ op = "idle") => result = Ok(b64_encode(flatten(out)))
    /\ (DecryptDone /\ decodeOk) => depadded = depad(flatten(out))

C6_Witness ==
  /\ op = "encrypt"
  /\ Len(out) = 3
  /\ out[1] = NoBlock
  /\ out[2] = NoBlock
  /\ out[3] = encrypt_block(keys, blocks[3])
  /\ blocks[3] # blocks[1]

(* C7: under one key, equal padded plaintext blocks give equal ciphertext  *)
(* blocks, at two positions of one message and across two messages.        *)
C7_BlockIndependence ==
  call = "encrypt" =>
    /\ \A i \in 1..Len(out), j \in 1..Len(out) :
         (out[i] # NoBlock /\ out[j] # NoBlock /\ blocks[i] = blocks[j])
           => out[i] = out[j]
    /\ \A i \in 1..Len(out), j \in 1..Len(lastEnc.out) :
         (out[i] # NoBlock /\ blocks[i] = lastEnc.blocks[j])
           => out[i] = lastEnc.out[j]

C7_Witness ==
  /\ op = "encrypt"
  /\ lastEnc.any
  /\ lastEnc.msg # message
  /\ Len(out) = 3
  /\ Filled(out)
  /\ blocks[1] = blocks[2] /\ out[1] = out[2]
  /\ blocks[3] # blocks[1] /\ out[3] # out[1]
  /\ \E j \in 1..Len(lastEnc.out) :
       blocks[3] = lastEnc.blocks[j] /\ out[3] = lastEnc.out[j]

(* C8: every block decrypt has transformed is 16 consecutive bytes of the  *)
(* decoded ciphertext, whose length is a multiple of 16.                   *)
C8_WholeBlocks ==
  (call = "decrypt" /\ decodeOk) =>
    \A i \in 1..Len(out) :
      out[i] # NoBlock =>
        /\ Len(decoded) % 16 = 0
        /\ OneBlock(blocks[i]) = SubSeq(decoded, 16 * (i - 1) + 1, 16 * i)

(* C9, as stated: for a text with a byte 0x80 before its end,              *)
(* decrypt(encrypt(s)) returns the text cut just before that byte.         *)
C9_TruncatedText ==
  (RoundTripDone /\ 128 \in Range(lastEnc.msg))
    => result = Ok(BeforeMarker(lastEnc.msg))

(* C9: for a text with a byte 0x80, unpadding cuts the recovered bytes     *)
(* just before the first 0x80, and decrypt(encrypt(s)) returns the         *)
(* InvalidUTF8 error, the cut bytes ending inside a UTF-8 sequence.        *)
C9_TruncatedThenInvalid ==
  (RoundTripDone /\ 128 \in Range(lastEnc.msg))
    => /\ depadded = BeforeMarker(lastEnc.msg)
       /\ depadded # lastEnc.msg
       /\ result = Err("InvalidUTF8")

C9_Witness ==
  /\ RoundTripDone
  /\ Len(lastEnc.msg) > 16
  /\ 128 \in Range(lastEnc.msg)
  /\ depadded = BeforeMarker(lastEnc.msg)
  /\ result = Err("InvalidUTF8")

GmulSet == {1, 2, 3, 9, 11, 13, 14}

(* C10: no call of new, encrypt or decrypt reaches a panic; the            *)
(* multiplicands given to gmul are in {1,2,3,9,11,13,14}, the round        *)
(* constant indices are within the 22 entries, the substitution tables     *)
(* are 16 by 16.                                                           *)
C10_NoPanic ==
  /\ op # "panicked"
  /\ created # "panic"
  /\ \A i \in Idx4, k \in Idx4 :
       MIX_MATRIX[i][k] \in GmulSet /\ INV_MIX_MATRIX[i][k] \in GmulSet
  /\ Len(RC) = 22
  /\ \A round_idx \in 0..9 : round_constant(round_idx) # Panic
  /\ Len(AES_SBOX) = 16 /\ Len(REVERSE_AES_SBOX) = 16
  /\ \A x \in 1..16 : Len(AES_SBOX[x]) = 16 /\ Len(REVERSE_AES_SBOX[x]) = 16
  /\ \A i \in 1..Len(out) : out[i] # NoBlock => ~HasPanic(out[i])

C10_Witness ==
  /\ DecryptDone
  /\ decodeOk
  /\ lastEnc.any
  /\ text # lastEnc.text
  /\ Len(decoded) = 3
  /\ Filled(out) /\ Len(out) = 1

RotWord(w) == << w[2], w[3], w[4], w[1] >>

SubWord(w) == << lookup(w[1]), lookup(w[2]), lookup(w[3]), lookup(w[4]) >>

XorWord(v, w) == << Xor(v[1], w[1]), Xor(v[2], w[2]), Xor(v[3], w[3]), Xor(v[4], w[4]) >>

(* C11: expand_key returns 11 round keys; round key 0 is the key, four     *)
(* bytes a word; word 0 of round r is word 0 of round r-1 XOR              *)
(* SubWord(RotWord(word 3 of round r-1)) with RC[r-1] XORed into its first *)
(* byte only; word c (1..3) of round r is word c-1 of round r XOR word c   *)
(* of round r-1.                                                           *)
C11_KeySchedule ==
  created = "Ok" =>
    /\ Len(keys) = 11
    /\ \A c \in Idx4, r \in Idx4 : keys[1][c][r] = keyArg[(c - 1) * 4 + r]
    /\ \A rd \in 1..10 :
         LET prev == keys[rd]
             cur  == keys[rd + 1]
             t    == XorWord(prev[1], SubWord(RotWord(prev[4])))
         IN  /\ cur[1] = << Xor(t[1], RC[rd]), t[2], t[3], t[4] >>
             /\ \A c \in 2..4 : cur[c] = XorWord(cur[c - 1], prev[c])

(* the last round key of FIPS-197 appendix A.1 is that of the key 00..0f *)
C11_Witness ==
  /\ created = "Ok"
  /\ keyArg = FipsKey
  /\ bpc = "decrypted"
  /\ keys[2][1] = << 214, 170, 116, 253 >>
  /\ keys[11] = << << 19, 17, 29, 127 >>, << 227, 148, 74, 23 >>,
                   << 243, 7, 167, 139 >>, << 77, 43, 48, 197 >> >>

St(name, rd) == [stage |-> name, round |-> rd]

(* the stages of rounds rd..9, then those of round 10 *)
RECURSIVE StagesFrom(_)
StagesFrom(rd) ==
  IF rd > 9
  THEN << St("SubBytes", 10), St("ShiftRows", 10), St("AddRoundKey", 10) >>
  ELSE << St("SubBytes", rd), St("ShiftRows", rd), St("MixColumns", rd),
          St("AddRoundKey", rd) >> \o StagesFrom(rd + 1)

ExpectedStages == << St("AddRoundKey", 0) >> \o StagesFrom(1)

IsPrefix(p, q) == Len(p) <= Len(q) /\ p = SubSeq(q, 1, Len(p))

IsKeyStage(e) == e.stage = "AddRoundKey"

IsMixStage(e) == e.stage = "MixColumns"

(* C12: for every input block encrypt_block runs the same stages:          *)
(* AddRoundKey(0); SubBytes, ShiftRows, MixColumns, AddRoundKey(r) for r   *)
(* in 1..9; SubBytes, ShiftRows, AddRoundKey(10).  Round keys 0..10 are    *)
(* each mixed in once, in increasing order; MixColumns runs 9 times and    *)
(* never in round 10.                                                      *)
C12_RoundStructure ==
  epc # "none" =>
    /\ IsPrefix(trace, ExpectedStages)
    /\ \A n \in 1..Len(trace) : trace[n].stage = "MixColumns" => trace[n].round # 10
    /\ epc = "done" =>
         /\ trace = ExpectedStages
         /\ LET ks == SelectSeq(trace, IsKeyStage)
            IN  Len(ks) = 11 /\ \A n \in 1..11 : ks[n].round = n - 1
         /\ Len(SelectSeq(trace, IsMixStage)) = 9
         /\ eBlk = encrypt_block(keys, eIn)

C12_Witness ==
  /\ epc = "done"
  /\ keyArg = FipsKey
  /\ OneBlock(eIn) = FipsPlain
  /\ Len(trace) = 40
  /\ trace[40] = St("AddRoundKey", 10)
  /\ trace[37] = St("AddRoundKey", 9)
  /\ OneBlock(eBlk) = FipsCipher

(* a times x in GF(2^8), reduced by x^8 + x^4 + x^3 + x + 1 *)
XTime(a) == IF 2 * a >= 256 THEN Xor(2 * a - 256, 27) ELSE 2 * a

(* the product of a and b in GF(2^8), by shift and add *)
RECURSIVE GFMul(_, _)
GFMul(a, b) ==
  IF b = 0 THEN 0
  ELSE Xor(IF b % 2 = 1 THEN a ELSE 0, GFMul(XTime(a), b \div 2))

(* C13: for n in {2,3,9,11,13,14} and every byte m, gmul(n, m) is the      *)
(* product of n and m in GF(2^8) reduced by 0x11B, and gmul(1, m) is m.    *)
C13_GaloisTables ==
  gpc = "done" =>
    /\ gn \in {2, 3, 9, 11, 13, 14} => gres = GFMul(gn, gm)
    /\ gn = 1 => gres = gm

C13_Witness ==
  /\ gpc = "done"
  /\ gn = 11
  /\ gm = 255
  /\ gres = GFMul(11, 255)
  /\ gres # GFMul(9, 255)
  /\ GFMul(87, 131) = 193

=============================================================================
